---- MODULE Spec2Model ----
(***************************************************************************)
(* CryptoAnalyzer (src/crypto_analyzer.py): a table of daily bars that     *)
(* accumulates indicator and signal columns in place, and a report reduced *)
(* from it.                                                                *)
(*                                                                         *)
(* Numbers.  The table holds float64 values.  They are modelled as exact   *)
(* rationals [num, den] with den >= 0, reduced to lowest terms; den = 0    *)
(* stands for the IEEE special values: 0/0 is NaN (pandas' "absent"),      *)
(* 1/0 is +inf and -1/0 is -inf.  Rounding is not modelled.  The base      *)
(* columns (Open, High, Low, Close) hold integer-valued prices.            *)
(* A Bollinger band mid + k*sqrt(var) is kept as the triple                 *)
(* [mid, var, k], since its value is irrational in general.                *)
(***************************************************************************)
EXTENDS Integers, Sequences, FiniteSets

VARIABLES
  source,      \* the bars the data source returns for this run (environment)
  args,        \* the constructor's arguments [symbol, start_date, end_date]
  pc,          \* "init": not constructed, "ready": constructed, "failed": __init__ raised
  symbol,      \* self.symbol
  start_date,  \* self.start_date
  end_date,    \* self.end_date
  data,        \* self.data: column name -> column (a sequence, one entry per bar)
  last,        \* the last call made and the exception class it raised ("" if none)
  ret,         \* <<report>> if the last call returned a report, else <<>>
  fig,         \* the annotations of the figure the last call showed, else {}
  reports,     \* every report returned so far (history)
  rerun        \* how far the pipeline has been run again on the annotated table (history):
               \* "add_indicators" once add_indicators ran on a table holding every derived
               \* column, "identify_patterns" once identify_patterns followed it, else ""

vars == <<source, args, pc, symbol, start_date, end_date, data, last, ret, fig, reports, rerun>>

----------------------------------------------------------------------------
(* Bounds of the model and program constants *)

MaxPrefix == 50
MaxTail == 3

SMA_FAST_WINDOW == 20
SMA_SLOW_WINDOW == 50
EMA_WINDOW == 20
RSI_WINDOW == 14
BB_WINDOW == 20
BB_DEV == 2
OVERSOLD_LEVEL == 30
OVERBOUGHT_LEVEL == 70

\* Close prices the inputs are drawn from: 98 -> 0 -> 39 is a loss of 98
\* followed by a gain of 39, which puts Wilder's RSI on exactly 30.
Vals == {0, 39, 98}

\* Lengths of the constant run that opens an input series: with the tail,
\* the series lengths lie around each warm-up window (14, 20, 50) and at 0.
PrefixLens == {0, 12, 18, 48, MaxPrefix}

\* Constructor arguments: dates omitted (None) or given.
None == ""
DateArgs == { <<None, None>>, <<"2024-01-01", "2024-03-01">> }
Symbols == {"BTC"}

\* datetime.now() as '%Y-%m-%d', and the day 365 days before it.
Today == "today"
TodayMinus365 == "today-365d"

----------------------------------------------------------------------------
(* float64 arithmetic on exact rationals *)

Abs(n) == IF n < 0 THEN -n ELSE n
Max(a, b) == IF a >= b THEN a ELSE b
Min(a, b) == IF a <= b THEN a ELSE b
Sign(n) == IF n > 0 THEN 1 ELSE IF n < 0 THEN -1 ELSE 0

RECURSIVE GCD(_, _)
GCD(a, b) == IF b = 0 THEN a ELSE GCD(b, a % b)

NaN == [num |-> 0, den |-> 0]

\* n / d as float64 division does it: x/0 is +-inf, 0/0 is NaN, no exception.
Quot(n, d) ==
  IF d = 0 THEN [num |-> Sign(n), den |-> 0]
  ELSE LET g == GCD(Abs(n), Abs(d))
       IN  [num |-> (Sign(d) * n) \div g, den |-> Abs(d) \div g]

FromInt(n) == [num |-> n, den |-> 1]
IsNaN(x) == x.num = 0 /\ x.den = 0
IsFinite(x) == x.den > 0

\* Comparisons: any comparison with NaN is False.
Gt(a, b) == ~IsNaN(a) /\ ~IsNaN(b) /\ a.num * b.den > b.num * a.den
Lt(a, b) == ~IsNaN(a) /\ ~IsNaN(b) /\ a.num * b.den < b.num * a.den
Ge(a, b) == ~IsNaN(a) /\ ~IsNaN(b) /\ a.num * b.den >= b.num * a.den
Le(a, b) == ~IsNaN(a) /\ ~IsNaN(b) /\ a.num * b.den <= b.num * a.den

\* x * k for an integer k
Scale(x, k) == IF x.den = 0 THEN [num |-> Sign(x.num * k), den |-> 0]
               ELSE Quot(x.num * k, x.den)

----------------------------------------------------------------------------
(* Series helpers *)

Repeat(v, n) == [i \in 1..n |-> v]

\* The running totals of rows lo..hi, given the total before row lo (the
\* range is walked by halves, left half first).
RECURSIVE CumRange(_, _, _, _)
CumRange(xs, before, lo, hi) ==
  IF lo > hi THEN <<>>
  ELSE IF lo = hi THEN <<before + xs[lo]>>
  ELSE LET mid == (lo + hi) \div 2
           left == CumRange(xs, before, lo, mid)
       IN  left \o CumRange(xs, left[Len(left)], mid + 1, hi)

\* Series.cumsum()
CumSum(xs) == CumRange(xs, 0, 1, Len(xs))

\* The sums of the w rows ending at each row i >= w: rolling(w).sum()
RollingSum(xs, w) ==
  LET total == CumSum(xs)
  IN  [i \in 1..Len(xs) |->
         IF i < w THEN 0 ELSE total[i] - (IF i = w THEN 0 ELSE total[i - w])]

Squares(xs) == [i \in 1..Len(xs) |-> xs[i] * xs[i]]

\* Series.shift(1): every value moves one row down, the first row is NaN.
Shift1(col) == [i \in 1..Len(col) |-> IF i = 1 THEN NaN ELSE col[i - 1]]

\* number of True rows of a boolean column: len(df[df[col]])
CountTrue(col) == Cardinality({i \in 1..Len(col) : col[i]})

----------------------------------------------------------------------------
(* The indicator library as add_indicators calls it (fillna=False) *)

\* Series.rolling(w, min_periods=w).mean(): NaN on the first w-1 rows.
SMA(closes, w) ==
  LET sums == RollingSum(closes, w)
  IN  [i \in 1..Len(closes) |-> IF i < w THEN NaN ELSE Quot(sums[i], w)]

\* One step of Series.ewm(adjust=False).mean():
\* y[i] = (keep * y[i-1] + gain * x[i]) / total, as an exact rational.
EwmStep(y, x, keep, gain, total) ==
  Quot(keep * y.num + gain * x * y.den, total * y.den)

\* The values of rows lo..hi, given the value y of row lo-1 (the range is
\* walked by halves, left half first; a NaN stays NaN under EwmStep).
RECURSIVE EwmRange(_, _, _, _, _, _, _)
EwmRange(xs, keep, gain, total, y, lo, hi) ==
  IF lo > hi THEN <<>>
  ELSE IF lo = hi THEN <<EwmStep(y, xs[lo], keep, gain, total)>>
  ELSE LET mid == (lo + hi) \div 2
           left == EwmRange(xs, keep, gain, total, y, lo, mid)
           carry == left[Len(left)]
       IN  IF IsNaN(carry) THEN left \o Repeat(NaN, hi - mid)
           ELSE left \o EwmRange(xs, keep, gain, total, carry, mid + 1, hi)

\* Series.ewm(adjust=False).mean(): y[1] = x[1], then one step a row.
Ewm(xs, keep, gain, total) ==
  IF Len(xs) = 0 THEN <<>>
  ELSE <<FromInt(xs[1])>> \o EwmRange(xs, keep, gain, total, FromInt(xs[1]), 2, Len(xs))

\* min_periods: the first n-1 rows of a column without NaN inputs are NaN
MinPeriods(col, n) == [i \in 1..Len(col) |-> IF i < n THEN NaN ELSE col[i]]

\* EMAIndicator: ewm(span=w, min_periods=w, adjust=False), alpha = 2/(w+1).
EMA(closes, w) == MinPeriods(Ewm(closes, w - 1, 2, w + 1), w)

\* diff.where(diff > 0, 0.0): the first row's diff is NaN and becomes 0.0
UpDirection(closes) ==
  [i \in 1..Len(closes) |->
     IF i > 1 /\ closes[i] - closes[i - 1] > 0 THEN closes[i] - closes[i - 1] ELSE 0]

\* -diff.where(diff < 0, 0.0)
DownDirection(closes) ==
  [i \in 1..Len(closes) |->
     IF i > 1 /\ closes[i] - closes[i - 1] < 0 THEN closes[i - 1] - closes[i] ELSE 0]

\* 100 - 100 / (1 + emaup / emadn), which is 100 * emaup / (emaup + emadn)
RsiValue(up, dn) ==
  LET g == GCD(up.den, dn.den)
      a == up.num * (dn.den \div g)
      c == dn.num * (up.den \div g)
  IN  Quot(100 * a, a + c)

\* np.where(emadn == 0, 100, 100 - (100 / (1 + emaup / emadn)))
RsiRow(emaup, emadn) ==
  IF IsNaN(emaup) \/ IsNaN(emadn) THEN NaN
  ELSE IF emadn.num = 0 THEN FromInt(100)
  ELSE RsiValue(emaup, emadn)

\* RSIIndicator: Wilder smoothing ewm(alpha=1/w, min_periods, adjust=False)
\* of the gains and of the losses; min_periods is w unless fillna is set.
RSI(closes, w, min_periods) ==
  LET emaup == MinPeriods(Ewm(UpDirection(closes), w - 1, 1, w), min_periods)
      emadn == MinPeriods(Ewm(DownDirection(closes), w - 1, 1, w), min_periods)
  IN  [i \in 1..Len(closes) |-> RsiRow(emaup[i], emadn[i])]

\* rolling(w, min_periods=w).std(ddof=0), squared: the population variance
RollingVar(closes, w) ==
  LET sums == RollingSum(closes, w)
      squares == RollingSum(Squares(closes), w)
  IN  [i \in 1..Len(closes) |->
         IF i < w THEN NaN
         ELSE Quot(w * squares[i] - sums[i] * sums[i], w * w)]

\* BollingerBands: mavg + k * mstd, kept as [mid, var, k]
Band(closes, w, k) ==
  LET mid == SMA(closes, w)
      var == RollingVar(closes, w)
  IN  [i \in 1..Len(closes) |-> [mid |-> mid[i], var |-> var[i], k |-> k]]

----------------------------------------------------------------------------
(* The table, self.data *)

BaseColumns == {"Date", "Open", "High", "Low", "Close"}
IndicatorColumns == {"SMA20", "SMA50", "EMA20", "RSI", "BB_upper", "BB_lower", "BB_middle"}
SignalColumns == {"Golden_Cross", "Death_Cross", "Oversold", "Overbought"}

NoData == [c \in {} |-> <<>>]

Has(df, cols) == cols \subseteq DOMAIN df

\* df[name] = col: adds the column, or replaces it if it is there
SetCol(df, name, col) ==
  [c \in DOMAIN df \cup {name} |-> IF c = name THEN col ELSE df[c]]

NRows(df) == Len(df["Close"])

\* ticker.history(...): one row per bar; "Date" is the table's index
Frame(bars) ==
  [c \in BaseColumns |->
     [i \in 1..Len(bars) |->
        CASE c = "Date"  -> bars[i].timestamp
          [] c = "Open"  -> bars[i].open
          [] c = "High"  -> bars[i].high
          [] c = "Low"   -> bars[i].low
          [] c = "Close" -> bars[i].close]]

----------------------------------------------------------------------------
(* The methods of CryptoAnalyzer, as functions of the object's fields.     *)
(* Each yields the table after the call, the exception class raised ("" if *)
(* the call returned), the report returned (<<r>>, or <<>>) and the        *)
(* annotations of the figure shown.                                        *)

Outcome(df, raised, r, annotations) ==
  [data |-> df, raised |-> raised, ret |-> r, fig |-> annotations]

\* load_data without the emptiness test
load_data_unchecked(bars) == Outcome(Frame(bars), "", <<>>, {})

\* load_data: the table is assigned, then an empty table raises ValueError
load_data(bars) ==
  LET df == Frame(bars)
  IN  IF NRows(df) = 0 THEN Outcome(df, "ValueError", <<>>, {})
      ELSE Outcome(df, "", <<>>, {})

\* RSI computed with min_periods = 0 (the library's fillna=True smoothing)
RSI_no_warmup(closes) == RSI(closes, RSI_WINDOW, 0)

\* RSIIndicator(close=...).rsi(): the default window
rsi(closes) == RSI(closes, RSI_WINDOW, RSI_WINDOW)

\* the seven indicator columns, each computed from Close
Indicators(df) ==
  LET close == df["Close"]
      d1 == SetCol(df, "SMA20", SMA(close, SMA_FAST_WINDOW))
      d2 == SetCol(d1, "SMA50", SMA(close, SMA_SLOW_WINDOW))
      d3 == SetCol(d2, "EMA20", EMA(close, EMA_WINDOW))
      d4 == SetCol(d3, "RSI", rsi(close))
      d5 == SetCol(d4, "BB_upper", Band(close, BB_WINDOW, BB_DEV))
      d6 == SetCol(d5, "BB_lower", Band(close, BB_WINDOW, -BB_DEV))
  IN  SetCol(d6, "BB_middle", SMA(close, BB_WINDOW))

\* DataFrame.dropna(): only the rows with no NaN in SMA50 (the longest warm-up) stay
DropWarmup(df) ==
  LET first == SMA_SLOW_WINDOW
      n == IF NRows(df) >= first THEN NRows(df) - first + 1 ELSE 0
  IN  [c \in DOMAIN df |-> [i \in 1..n |-> df[c][i + first - 1]]]

\* add_indicators followed by dropping the warm-up rows in place
add_indicators_dropna(self) == Outcome(DropWarmup(Indicators(self.data)), "", <<>>, {})

add_indicators(self) == Outcome(Indicators(self.data), "", <<>>, {})

\* Golden cross with a strict comparison at the prior row
Golden_Cross_strict_prior(df) ==
  LET fast == df["SMA20"]
      slow == df["SMA50"]
      fast_prev == Shift1(fast)
      slow_prev == Shift1(slow)
  IN  [i \in 1..NRows(df) |->
         Gt(fast[i], slow[i]) /\ Lt(fast_prev[i], slow_prev[i])]

\* (SMA20 > SMA50) & (SMA20.shift(1) <= SMA50.shift(1))
Golden_Cross(df) ==
  LET fast == df["SMA20"]
      slow == df["SMA50"]
      fast_prev == Shift1(fast)
      slow_prev == Shift1(slow)
  IN  [i \in 1..NRows(df) |->
         Gt(fast[i], slow[i]) /\ Le(fast_prev[i], slow_prev[i])]

\* Death cross with a strict comparison at the prior row
Death_Cross_strict_prior(df) ==
  LET fast == df["SMA20"]
      slow == df["SMA50"]
      fast_prev == Shift1(fast)
      slow_prev == Shift1(slow)
  IN  [i \in 1..NRows(df) |->
         Lt(fast[i], slow[i]) /\ Gt(fast_prev[i], slow_prev[i])]

\* Death cross copied from the golden cross with only the prior comparison turned
Death_Cross_unflipped(df) ==
  LET fast == df["SMA20"]
      slow == df["SMA50"]
      fast_prev == Shift1(fast)
      slow_prev == Shift1(slow)
  IN  [i \in 1..NRows(df) |->
         Gt(fast[i], slow[i]) /\ Ge(fast_prev[i], slow_prev[i])]

\* (SMA20 < SMA50) & (SMA20.shift(1) >= SMA50.shift(1))
Death_Cross(df) ==
  LET fast == df["SMA20"]
      slow == df["SMA50"]
      fast_prev == Shift1(fast)
      slow_prev == Shift1(slow)
  IN  [i \in 1..NRows(df) |->
         Lt(fast[i], slow[i]) /\ Ge(fast_prev[i], slow_prev[i])]

\* Oversold with a non-strict threshold
Oversold_inclusive(df) ==
  [i \in 1..NRows(df) |-> Le(df["RSI"][i], FromInt(OVERSOLD_LEVEL))]

\* RSI < 30
Oversold(df) ==
  [i \in 1..NRows(df) |-> Lt(df["RSI"][i], FromInt(OVERSOLD_LEVEL))]

\* RSI > 70
Overbought(df) ==
  [i \in 1..NRows(df) |-> Gt(df["RSI"][i], FromInt(OVERBOUGHT_LEVEL))]

\* The four assignments in order; reading a column the table lacks raises
\* KeyError and leaves the assignments already made in place.
Patterns(df) ==
  IF ~Has(df, {"SMA20", "SMA50"}) THEN Outcome(df, "KeyError", <<>>, {})
  ELSE LET d1 == SetCol(df, "Golden_Cross", Golden_Cross(df))
           d2 == SetCol(d1, "Death_Cross", Death_Cross(d1))
       IN  IF ~Has(d2, {"RSI"}) THEN Outcome(d2, "KeyError", <<>>, {})
           ELSE LET d3 == SetCol(d2, "Oversold", Oversold(d2))
                IN  Outcome(SetCol(d3, "Overbought", Overbought(d3)), "", <<>>, {})

\* identify_patterns that also replaces SMA20 by its shifted copy
identify_patterns_shift_in_place(self) ==
  LET out == Patterns(self.data)
  IN  IF out.raised # "" THEN out
      ELSE Outcome(SetCol(out.data, "SMA20", Shift1(out.data["SMA20"])), "", <<>>, {})

identify_patterns(self) == Patterns(self.data)

\* ((Close[-1] - Close[0]) / Close[0]) * 100 on float64 values; [-1] and [0]
\* read the last and the first row by position
PriceChange(close) ==
  Scale(Quot(close[Len(close)] - close[1], close[1]), 100)

Report(self) ==
  LET df == self.data
  IN  [Symbol |-> self.symbol,
       Period |-> <<self.start_date, self.end_date>>,
       CurrentPrice |-> df["Close"][NRows(df)],
       PriceChangePct |-> PriceChange(df["Close"]),
       RSI |-> df["RSI"][NRows(df)],
       GoldenCrosses |-> CountTrue(df["Golden_Cross"]),
       DeathCrosses |-> CountTrue(df["Death_Cross"]),
       TimesOversold |-> CountTrue(df["Oversold"]),
       TimesOverbought |-> CountTrue(df["Overbought"])]

\* generate_report reading absent columns as empty ones (dict.get style)
generate_report_lenient(self) ==
  LET df == self.data
      n == NRows(df)
      full == [c \in DOMAIN df \cup IndicatorColumns \cup SignalColumns |->
                 IF c \in DOMAIN df THEN df[c]
                 ELSE IF c \in SignalColumns THEN [i \in 1..n |-> FALSE]
                 ELSE [i \in 1..n |-> NaN]]
  IN  IF n = 0 THEN Outcome(df, "IndexError", <<>>, {})
      ELSE Outcome(df, "", <<Report([self EXCEPT !.data = full])>>, {})

\* generate_report: the dict literal is evaluated top to bottom, so the
\* first failing read decides the exception
generate_report(self) ==
  LET df == self.data
  IN  IF NRows(df) = 0 THEN Outcome(df, "IndexError", <<>>, {})
      ELSE IF ~Has(df, {"RSI"}) THEN Outcome(df, "KeyError", <<>>, {})
      ELSE IF ~Has(df, SignalColumns) THEN Outcome(df, "KeyError", <<>>, {})
      ELSE Outcome(df, "", <<Report(self)>>, {})

\* plot_analysis: the traces read the price, SMA and band columns, then one
\* annotation per golden cross (at Low) and per death cross (at High)
plot_analysis(self) ==
  LET df == self.data
  IN  IF ~Has(df, {"SMA20", "SMA50", "BB_upper", "BB_lower"})
        THEN Outcome(df, "KeyError", <<>>, {})
      ELSE IF ~Has(df, {"Golden_Cross", "Death_Cross"})
        THEN Outcome(df, "KeyError", <<>>, {})
      ELSE Outcome(df, "", <<>>,
             { [x |-> df["Date"][i], y |-> df["Low"][i], text |-> "Golden Cross"] :
                 i \in {j \in 1..NRows(df) : df["Golden_Cross"][j]} }
             \cup
             { [x |-> df["Date"][i], y |-> df["High"][i], text |-> "Death Cross"] :
                 i \in {j \in 1..NRows(df) : df["Death_Cross"][j]} })

----------------------------------------------------------------------------
(* Inputs *)

\* The bars of a series of closes: one bar a day, opening at the previous close.
Bars(closes) ==
  [i \in 1..Len(closes) |->
     LET open == IF i = 1 THEN closes[1] ELSE closes[i - 1]
     IN  [timestamp |-> i, open |-> open, high |-> Max(open, closes[i]),
          low |-> Min(open, closes[i]), close |-> closes[i]]]

Tails == UNION { [1..n -> Vals] : n \in 0..MaxTail }

\* A constant run followed by a short free tail.
InputSeries == { Repeat(b, p) \o t : b \in Vals, p \in PrefixLens, t \in Tails }

InputArgs ==
  { [symbol |-> s, start_date |-> d[1], end_date |-> d[2]] : s \in Symbols, d \in DateArgs }

\* main() passes the symbol alone
MainArgs == [symbol |-> "BTC", start_date |-> None, end_date |-> None]

\* Every series under main's arguments, and the longest constant runs with
\* one more bar under every choice of arguments.
Inputs ==
  { [closes |-> c, args |-> MainArgs] : c \in InputSeries }
  \cup { [closes |-> Repeat(b, MaxPrefix) \o <<v>>, args |-> a] :
           b \in Vals, v \in Vals, a \in InputArgs }

----------------------------------------------------------------------------
(* State machine *)

Self == [symbol |-> symbol, start_date |-> start_date, end_date |-> end_date, data |-> data]

Init ==
  /\ \E inp \in Inputs : source = Bars(inp.closes) /\ args = inp.args
  /\ pc = "init"
  /\ symbol = ""
  /\ start_date = None
  /\ end_date = None
  /\ data = NoData
  /\ last = [op |-> "", raised |-> ""]
  /\ ret = <<>>
  /\ fig = {}
  /\ reports = {}
  /\ rerun = ""

\* CryptoAnalyzer(symbol, start_date, end_date): __init__, which ends in load_data
CryptoAnalyzer ==
  /\ pc = "init"
  /\ symbol' = args.symbol
  /\ start_date' = IF args.start_date # None THEN args.start_date ELSE TodayMinus365
  /\ end_date' = IF args.end_date # None THEN args.end_date ELSE Today
  /\ LET out == load_data(source)
     IN  /\ data' = out.data
         /\ pc' = IF out.raised = "" THEN "ready" ELSE "failed"
         /\ last' = [op |-> "__init__", raised |-> out.raised]
  /\ UNCHANGED <<source, args, ret, fig, reports, rerun>>

\* a method call on the constructed analyzer and what it leaves behind
Call(op, out) ==
  /\ pc = "ready"
  /\ data' = out.data
  /\ last' = [op |-> op, raised |-> out.raised]
  /\ ret' = out.ret
  /\ fig' = out.fig
  /\ reports' = reports \cup { out.ret[i] : i \in 1..Len(out.ret) }
  /\ rerun' = IF op = "add_indicators" /\ rerun = ""
                  /\ Has(data, IndicatorColumns \cup SignalColumns)
                THEN "add_indicators"
              ELSE IF op = "identify_patterns" /\ rerun = "add_indicators"
                THEN "identify_patterns"
              ELSE rerun
  /\ UNCHANGED <<source, args, pc, symbol, start_date, end_date>>

Call_add_indicators == Call("add_indicators", add_indicators(Self))

Call_identify_patterns == Call("identify_patterns", identify_patterns(Self))

Call_generate_report == Call("generate_report", generate_report(Self))

Call_plot_analysis == Call("plot_analysis", plot_analysis(Self))

Next ==
  \/ CryptoAnalyzer
  \/ Call_add_indicators
  \/ Call_identify_patterns
  \/ Call_generate_report
  \/ Call_plot_analysis

Spec == Init /\ [][Next]_vars

----------------------------------------------------------------------------
(* Properties *)

\* Real-number readings of a table value, used to state the properties:
\* a value is present when it is not NaN, and present values compare as
\* the rationals they are.
Present(x) == x.den # 0
Less(a, b) == a.num * b.den < b.num * a.den
Same(a, b) == a.num * b.den = b.num * a.den
LessEq(a, b) == Less(a, b) \/ Same(a, b)

Rows == 1..NRows(data)
Annotated == Has(data, IndicatorColumns \cup SignalColumns)

\* SMA20 and SMA50 are both present at row i
BothPresent(i) == Present(data["SMA20"][i]) /\ Present(data["SMA50"][i])

\* C1: at every row i, Golden_Cross[i] is true exactly when SMA20[i] > SMA50[i]
\* and SMA20[i-1] <= SMA50[i-1]; it is false at the first row and wherever
\* SMA20 or SMA50 is absent at i or at i-1.
C1_GoldenCross ==
  Has(data, {"SMA20", "SMA50", "Golden_Cross"}) =>
    \A i \in Rows :
      data["Golden_Cross"][i] <=>
        /\ i > 1
        /\ BothPresent(i)
        /\ BothPresent(i - 1)
        /\ Less(data["SMA50"][i], data["SMA20"][i])
        /\ LessEq(data["SMA20"][i - 1], data["SMA50"][i - 1])

\* A golden cross out of a prior row where the two averages are equal, in a
\* table whose first rows have no averages.
C1_Witness ==
  /\ Has(data, {"SMA20", "SMA50", "Golden_Cross"})
  /\ NRows(data) > 1
  /\ ~BothPresent(1)
  /\ ~data["Golden_Cross"][1]
  /\ \E i \in Rows \ {1} :
       /\ data["Golden_Cross"][i]
       /\ BothPresent(i - 1)
       /\ Same(data["SMA20"][i - 1], data["SMA50"][i - 1])

\* C2: at every row i, Death_Cross[i] is true exactly when SMA20[i] < SMA50[i]
\* and SMA20[i-1] >= SMA50[i-1]; it is false at the first row and wherever
\* SMA20 or SMA50 is absent at i or at i-1.
C2_DeathCross ==
  Has(data, {"SMA20", "SMA50", "Death_Cross"}) =>
    \A i \in Rows :
      data["Death_Cross"][i] <=>
        /\ i > 1
        /\ BothPresent(i)
        /\ BothPresent(i - 1)
        /\ Less(data["SMA20"][i], data["SMA50"][i])
        /\ LessEq(data["SMA50"][i - 1], data["SMA20"][i - 1])

\* A death cross out of a prior row where the two averages are equal.
C2_Witness ==
  /\ Has(data, {"SMA20", "SMA50", "Death_Cross"})
  /\ NRows(data) > 1
  /\ ~BothPresent(1)
  /\ ~data["Death_Cross"][1]
  /\ \E i \in Rows \ {1} :
       /\ data["Death_Cross"][i]
       /\ BothPresent(i - 1)
       /\ Same(data["SMA20"][i - 1], data["SMA50"][i - 1])

\* C3: when the first close is exactly 0, generate_report fails with a
\* division-by-zero error while computing the price change and returns no
\* report; for any other first close the field is
\* (last_close - first_close) / first_close * 100.
C3_ZeroFirstCloseRaises ==
  (last.op = "generate_report" /\ Annotated) =>
    LET first == data["Close"][1]
        final == data["Close"][NRows(data)]
    IN  IF first = 0
          THEN last.raised = "ZeroDivisionError" /\ ret = <<>>
          ELSE /\ last.raised = ""
               /\ Len(ret) = 1
               /\ Present(ret[1].PriceChangePct)
               /\ ret[1].PriceChangePct.num * first
                    = 100 * (final - first) * ret[1].PriceChangePct.den

\* C4: when the data source returns no bars, the constructor raises
\* ValueError out of load_data, the analyzer never becomes usable, and no
\* indicator, signal or report is ever computed on an empty series.
C4_EmptySeriesRejected ==
  /\ (pc # "init" /\ Len(source) = 0) =>
       /\ pc = "failed"
       /\ last = [op |-> "__init__", raised |-> "ValueError"]
       /\ DOMAIN data \subseteq BaseColumns
       /\ ret = <<>>
       /\ reports = {}
  /\ pc = "failed" => Len(source) = 0
  /\ (pc = "ready" /\ last.op # "__init__") => NRows(data) > 0

\* The constructor has raised on an empty series.
C4_Witness ==
  /\ pc = "failed"
  /\ Len(source) = 0
  /\ last.raised = "ValueError"

\* C5: when the series is shorter than the RSI window, generate_report on
\* the annotated table does not fail: it returns a report whose RSI field is
\* NaN, the table's "absent", and no RSI value that is present is NaN (each
\* lies in [0, 100]).
C5_ShortSeriesRsiUnavailable ==
  /\ (last.op = "generate_report" /\ Annotated /\ NRows(data) < RSI_WINDOW) =>
       /\ last.raised = ""
       /\ Len(ret) = 1
       /\ ~Present(ret[1].RSI)
       /\ IsNaN(ret[1].RSI)
  /\ Has(data, {"RSI"}) =>
       \A i \in Rows :
         \/ IsNaN(data["RSI"][i])
         \/ /\ IsFinite(data["RSI"][i])
            /\ LessEq(FromInt(0), data["RSI"][i])
            /\ LessEq(data["RSI"][i], FromInt(100))

\* A report returned for a series of fewer bars than the RSI window.
C5_Witness ==
  /\ last.op = "generate_report"
  /\ Annotated
  /\ NRows(data) < RSI_WINDOW
  /\ Len(ret) = 1
  /\ IsNaN(ret[1].RSI)

\* C6: at every row i, Oversold[i] is true exactly when RSI[i] is present
\* and strictly below 30; it is false where RSI is absent and where RSI is
\* exactly 30.
C6_Oversold ==
  Has(data, {"RSI", "Oversold"}) =>
    \A i \in Rows :
      data["Oversold"][i] <=>
        /\ Present(data["RSI"][i])
        /\ Less(data["RSI"][i], FromInt(OVERSOLD_LEVEL))

\* A table with a warm-up row, a row whose RSI is exactly 30 and not
\* oversold, and an oversold row.
C6_Witness ==
  /\ Has(data, {"RSI", "Oversold"})
  /\ \E i \in Rows : ~Present(data["RSI"][i]) /\ ~data["Oversold"][i]
  /\ \E i \in Rows : data["RSI"][i] = FromInt(OVERSOLD_LEVEL) /\ ~data["Oversold"][i]
  /\ \E i \in Rows : data["Oversold"][i]

\* The report of main(): a fresh analyzer on the loaded series, then
\* add_indicators, identify_patterns and generate_report once each.
FreshRun ==
  LET loaded == [Self EXCEPT !.data = load_data(source).data]
      indicated == [loaded EXCEPT !.data = add_indicators(loaded).data]
      annotated == [indicated EXCEPT !.data = identify_patterns(indicated).data]
  IN  generate_report(annotated)

\* C7: every report an analyzer returns, however often and in whatever order
\* its steps have been run again on the table already holding the derived
\* columns, is the report of one fresh straight run on the same series,
\* symbol and date range, field by field.
C7_Idempotent ==
  \A r \in reports :
    /\ FreshRun.raised = ""
    /\ FreshRun.ret = <<r>>

\* A report returned after add_indicators and identify_patterns were run
\* again on the annotated table, on a series with crosses in it.
C7_Witness ==
  /\ rerun = "identify_patterns"
  /\ last.op = "generate_report"
  /\ Len(ret) = 1
  /\ ret[1].GoldenCrosses + ret[1].DeathCrosses > 0

\* C8: at no row are Golden_Cross and Death_Cross both true.
C8_CrossesExclusive ==
  Has(data, {"Golden_Cross", "Death_Cross"}) =>
    \A i \in Rows : ~(data["Golden_Cross"][i] /\ data["Death_Cross"][i])

\* A table with a golden cross, a death cross, a row where the averages are
\* equal and a row where they are absent.
C8_Witness ==
  /\ Has(data, {"SMA20", "SMA50", "Golden_Cross", "Death_Cross"})
  /\ \E i \in Rows : data["Golden_Cross"][i]
  /\ \E i \in Rows : data["Death_Cross"][i]
  /\ \E i \in Rows : BothPresent(i) /\ Same(data["SMA20"][i], data["SMA50"][i])
  /\ \E i \in Rows : ~BothPresent(i)

\* the rows of the table's base columns are the loaded bars, in order
BaseAsLoaded ==
  /\ BaseColumns \subseteq DOMAIN data
  /\ \A c \in BaseColumns : data[c] = Frame(source)[c]

\* every column has one entry per loaded bar
ColumnsAligned == \A c \in DOMAIN data : Len(data[c]) = Len(source)

\* C9: once loaded, the base series stays as loaded (same bars, same order,
\* same timestamps and prices), every column stays aligned with it, and no
\* call removes a column or changes a base column.
C9_BaseSeriesFrame ==
  /\ [](pc = "ready" => BaseAsLoaded /\ ColumnsAligned)
  /\ [][pc = "ready" =>
          /\ DOMAIN data \subseteq DOMAIN data'
          /\ \A c \in BaseColumns : data'[c] = data[c]]_vars

\* The annotated table after the steps were run again on it, past the
\* longest warm-up.
C9_Witness ==
  /\ rerun = "identify_patterns"
  /\ Annotated
  /\ NRows(data) > SMA_SLOW_WINDOW
  /\ BaseAsLoaded

\* the table's derived columns are the ones the pipeline computes from the
\* loaded series
DerivedFromLoaded ==
  LET indicated == Indicators(Frame(source))
  IN  /\ \A c \in IndicatorColumns : data[c] = indicated[c]
      /\ data["Golden_Cross"] = Golden_Cross(indicated)
      /\ data["Death_Cross"] = Death_Cross(indicated)
      /\ data["Oversold"] = Oversold(indicated)
      /\ data["Overbought"] = Overbought(indicated)

\* C10: the stages take effect only in the order series, indicators,
\* signals, report: identify_patterns on a table without the indicator
\* columns raises and leaves the table as it was, generate_report on a table
\* without the signal columns raises and returns nothing, signal columns
\* exist only beside indicator columns, and a report is returned only from a
\* table whose signal columns come from indicator columns of the loaded series.
C10_StageOrder ==
  /\ [](pc = "ready" =>
          /\ (DOMAIN data \cap SignalColumns # {} => Has(data, IndicatorColumns))
          /\ (ret # <<>> => Annotated /\ DerivedFromLoaded /\ ret = <<Report(Self)>>))
  /\ [][(pc = "ready" /\ last'.op = "identify_patterns" /\ ~Has(data, IndicatorColumns))
          => (last'.raised # "" /\ data' = data)]_vars
  /\ [][(pc = "ready" /\ last'.op = "generate_report" /\ ~Has(data, SignalColumns))
          => (last'.raised # "" /\ ret' = <<>> /\ reports' = reports)]_vars

\* generate_report has raised on a table that holds the indicator columns
\* but no signal column, after identify_patterns had raised on the bare table.
C10_Witness ==
  /\ last = [op |-> "generate_report", raised |-> "KeyError"]
  /\ Has(data, IndicatorColumns)
  /\ DOMAIN data \cap SignalColumns = {}
  /\ ret = <<>>

====
